---- MODULE Spec2Model ----
(***************************************************************************)
(* A model of ris_to_excel.py: the RIS tag parser, the field resolver, the *)
(* year-range parser, the filters, the deduplicator and the per-folder     *)
(* pipeline.  Python strings are TLA+ strings read character by character  *)
(* (SubSeq(s, i, i)); None is the value None; a pandas DataFrame is a      *)
(* record [cols, rows] of its column names and its rows in order.          *)
(***************************************************************************)
EXTENDS Integers, Sequences, FiniteSets, TLC

VARIABLES
    pc,          \* position of the function under analysis
    lines,       \* parse_ris_file: the file's lines, terminators removed
    pos,         \* parse_ris_file: number of lines consumed by the for loop
    records,     \* parse_ris_file: records
    current,     \* parse_ris_file: current
    last_tag,    \* parse_ris_file: last_tag
    df,          \* deduplicate: the frame it is given
    once,        \* deduplicate(df)
    twice,       \* deduplicate(deduplicate(df))
    year_text,   \* parse_year_range: s
    year_range,  \* parse_year_range: what it returns or raises
    ris_record,  \* ris_records_to_rows: the record r of records
    source_name, \* ris_records_to_rows: source_name
    resolved,    \* ris_records_to_rows: rows
    folder,      \* build_grouped_excel_for_folder: ris_dir, file name -> lines
    files,       \* files
    min_year,    \* min_year
    max_year,    \* max_year
    only_terms,  \* only_terms
    do_dedup,    \* do_dedup
    groups,      \* groups
    order_keys,  \* order_keys
    total_parsed,              \* total_parsed
    total_kept_after_filters,  \* total_kept_after_filters
    total_dedup_removed,       \* total_dedup_removed
    output_rows, \* output_rows
    raw_rows,    \* raw_rows, one frame per group processed
    df_out,      \* df_out
    df_raw,      \* df_raw
    error        \* the exception the run ended with, or None

parseVars == <<lines, pos, records, current, last_tag>>
dedupVars == <<df, once, twice>>
yearVars == <<year_text, year_range>>
rowVars == <<ris_record, source_name, resolved>>
filterVars == <<min_year, max_year, only_terms, do_dedup>>
groupVars == <<groups, order_keys>>
statVars == <<total_parsed, total_kept_after_filters, total_dedup_removed>>
viewVars == <<output_rows, raw_rows, df_out, df_raw>>
folderVars == <<folder, files, filterVars, groupVars, statVars, viewVars, error>>
vars == <<pc, parseVars, dedupVars, yearVars, rowVars, folderVars>>

\* the variables a function leaves alone
NotParse == <<dedupVars, yearVars, rowVars, folderVars>>
NotDedup == <<parseVars, yearVars, rowVars, folderVars>>
NotYear == <<parseVars, dedupVars, rowVars, folderVars>>
NotRow == <<parseVars, dedupVars, yearVars, folderVars>>
NotFolder == <<parseVars, dedupVars, yearVars, rowVars>>

None == "None"
EmptyRecord == <<>>
NoFrame == [cols |-> {}, rows |-> <<>>]

\* the values the variables of a function hold while another one is analysed
ParseIdle ==
    /\ lines = <<>> /\ pos = 0 /\ records = <<>>
    /\ current = EmptyRecord /\ last_tag = None
DedupIdle == df = NoFrame /\ once = NoFrame /\ twice = NoFrame
YearIdle == year_text = "" /\ year_range = None
RowIdle == ris_record = EmptyRecord /\ source_name = "" /\ resolved = <<>>
FolderIdle ==
    /\ folder = <<>> /\ files = <<>>
    /\ min_year = <<>> /\ max_year = <<>> /\ only_terms = <<>> /\ do_dedup = FALSE
    /\ groups = <<>> /\ order_keys = <<>>
    /\ total_parsed = 0 /\ total_kept_after_filters = 0 /\ total_dedup_removed = 0
    /\ output_rows = <<>> /\ raw_rows = <<>> /\ df_out = NoFrame /\ df_raw = NoFrame
    /\ error = None

\* the k-th smallest element of a set of integers
Kth(S, k) == CHOOSE x \in S : Cardinality({y \in S : y < x}) = k - 1

(***************************************************************************)
(* Characters and strings                                                  *)
(***************************************************************************)
Ch(s, i) == SubSeq(s, i, i)

DigitSeq == "0123456789"
UpperSeq == "ABCDEFGHIJKLMNOPQRSTUVWXYZ"
LowerSeq == "abcdefghijklmnopqrstuvwxyz"
Digits == {Ch(DigitSeq, i) : i \in 1..Len(DigitSeq)}
Upper == {Ch(UpperSeq, i) : i \in 1..Len(UpperSeq)}
LowerLetters == {Ch(LowerSeq, i) : i \in 1..Len(LowerSeq)}
\* the characters \w and \b know as word characters
WordChars == Upper \cup LowerLetters \cup Digits \cup {"_"}

\* str.lower() and str.upper(), one character
LowerOf == [c \in Upper |->
              Ch(LowerSeq, CHOOSE i \in 1..Len(UpperSeq) : Ch(UpperSeq, i) = c)]
UpperOf == [c \in LowerLetters |->
              Ch(UpperSeq, CHOOSE i \in 1..Len(LowerSeq) : Ch(LowerSeq, i) = c)]
LowerCh(c) == IF c \in Upper THEN LowerOf[c] ELSE c
UpperCh(c) == IF c \in LowerLetters THEN UpperOf[c] ELSE c

\* str.lower()
RECURSIVE Lower(_)
Lower(s) == IF s = "" THEN "" ELSE LowerCh(Ch(s, 1)) \o Lower(SubSeq(s, 2, Len(s)))

\* sub in s
Contains(s, sub) ==
    \E i \in 1..(Len(s) - Len(sub) + 1) : SubSeq(s, i, i + Len(sub) - 1) = sub

\* the first position at or after i of a character of chars, or Len(s) + 1
RECURSIVE FindAny(_, _, _)
FindAny(s, chars, i) ==
    IF i > Len(s) \/ Ch(s, i) \in chars THEN i ELSE FindAny(s, chars, i + 1)
Space == {" ", "\t"}

\* index of the first character at or after i that is not whitespace
RECURSIVE SkipSpace(_, _)
SkipSpace(s, i) ==
    IF i <= Len(s) /\ Ch(s, i) \in Space THEN SkipSpace(s, i + 1) ELSE i

\* index of the last character at or before i that is not whitespace
RECURSIVE SkipSpaceBack(_, _)
SkipSpaceBack(s, i) ==
    IF i >= 1 /\ Ch(s, i) \in Space THEN SkipSpaceBack(s, i - 1) ELSE i

\* str.strip()
Strip(s) == SubSeq(s, SkipSpace(s, 1), SkipSpaceBack(s, Len(s)))

\* str.startswith(p)
StartsWith(s, p) == Len(s) >= Len(p) /\ SubSeq(s, 1, Len(p)) = p

(***************************************************************************)
(* TAG_LINE_RE: two characters of [A-Z0-9] (the tag), optional whitespace, *)
(* a hyphen, optional whitespace, and the rest of the line (the value).    *)
(***************************************************************************)
DashAt(line) == SkipSpace(line, 3)

TagLineMatch(line) ==
    /\ Len(line) >= 3
    /\ Ch(line, 1) \in Upper \cup Digits
    /\ Ch(line, 2) \in Upper \cup Digits
    /\ DashAt(line) <= Len(line)
    /\ Ch(line, DashAt(line)) = "-"

TagGroup(line) == SubSeq(line, 1, 2)
ValGroup(line) == SubSeq(line, SkipSpace(line, DashAt(line) + 1), Len(line))

(***************************************************************************)
(* parse_ris_file.  A Record maps each tag it holds to a value             *)
(* [list, v]: list says whether Python holds a list, v are the strings     *)
(* (exactly one for a scalar).                                             *)
(***************************************************************************)
Scalar(s) == [list |-> FALSE, v |-> <<s>>]

\* add_value with the repeat overwriting the stored value
AddValueOverwrite(cur, tag, val) ==
    [t \in DOMAIN cur \cup {tag} |-> IF t # tag THEN cur[t] ELSE Scalar(val)]

\* add_value(tag, val), as the new value of current
AddValue(cur, tag, val) ==
    [t \in DOMAIN cur \cup {tag} |->
        IF t # tag THEN cur[t]
        ELSE IF tag \in DOMAIN cur
             THEN [list |-> TRUE, v |-> Append(cur[tag].v, val)]
             ELSE Scalar(val)]

\* the continuation branch: the text is appended to the last value of last_tag
Continue(cur, tag, text) ==
    IF tag \in DOMAIN cur
    THEN LET old == cur[tag].v
             n == Len(old)
         IN [cur EXCEPT ![tag].v[n] = Strip(old[n] \o " " \o Strip(text))]
    ELSE [t \in DOMAIN cur \cup {tag} |->
             IF t = tag THEN Scalar(Strip(" " \o Strip(text))) ELSE cur[t]]

\* finish_one without its emptiness test
FinishOneAlways(recs, cur) == Append(recs, cur)

\* finish_one(), as the new value of records
FinishOne(recs, cur) == IF cur # EmptyRecord THEN Append(recs, cur) ELSE recs

LinePool == {"TI  - A", "AU  - B", "AU-C", "AU  -", "ER  - ", " x ", ""}
MaxLines == 5

ParseInit ==
    /\ pc = "parse"
    /\ DedupIdle /\ YearIdle /\ RowIdle /\ FolderIdle
    /\ lines \in UNION {[1..n -> LinePool] : n \in 0..MaxLines}
    /\ pos = 0
    /\ records = <<>>
    /\ current = EmptyRecord
    /\ last_tag = None

\* a line that does not match TAG_LINE_RE
ContinuationLine ==
    /\ pc = "parse" /\ pos < Len(lines)
    /\ LET line == lines[pos + 1] IN
        /\ ~TagLineMatch(line)
        /\ current' = IF last_tag # None /\ Strip(line) # ""
                      THEN Continue(current, last_tag, line)
                      ELSE current
    /\ pos' = pos + 1
    /\ UNCHANGED <<pc, lines, records, last_tag, NotParse>>

\* a tag line whose tag is ER: finish_one(); start_new()
EndRecord ==
    /\ pc = "parse" /\ pos < Len(lines)
    /\ LET line == lines[pos + 1] IN
        /\ TagLineMatch(line)
        /\ Strip(TagGroup(line)) = "ER"
        /\ records' = FinishOne(records, current)
    /\ current' = EmptyRecord
    /\ last_tag' = None
    /\ pos' = pos + 1
    /\ UNCHANGED <<pc, lines, NotParse>>

\* any other tag line: add_value(tag, val)
TagLine ==
    /\ pc = "parse" /\ pos < Len(lines)
    /\ LET line == lines[pos + 1] IN
        /\ TagLineMatch(line)
        /\ Strip(TagGroup(line)) # "ER"
        /\ last_tag' = Strip(TagGroup(line))
        /\ current' = AddValue(current, Strip(TagGroup(line)), Strip(ValGroup(line)))
    /\ pos' = pos + 1
    /\ UNCHANGED <<pc, lines, records, NotParse>>

\* end of file: return records
ParseReturn ==
    /\ pc = "parse" /\ pos = Len(lines)
    /\ pc' = "parsed"
    /\ UNCHANGED <<parseVars, NotParse>>

ParseNext == ContinuationLine \/ EndRecord \/ TagLine \/ ParseReturn

ParseSpec == ParseInit /\ [][ParseNext]_vars

(***************************************************************************)
(* The parser's claims, stated over the positions of the input lines.      *)
(***************************************************************************)
IsTagLine(i) == TagLineMatch(lines[i])
IsER(i) == IsTagLine(i) /\ TagGroup(lines[i]) = "ER"
IsField(i) == IsTagLine(i) /\ TagGroup(lines[i]) # "ER"

\* the lines of the block that the ER at line i ends
BlockOf(i) == {j \in 1..(i - 1) : \A e \in j..(i - 1) : ~IsER(e)}
FieldsOf(i) == {j \in BlockOf(i) : IsField(j)}

\* the ER lines consumed so far that were reached with a non-empty buffer
Closing == {i \in 1..pos : IsER(i) /\ FieldsOf(i) # {}}

\* the value of the tag line j with the continuation lines that follow it
RECURSIVE Wrapped(_, _)
Wrapped(text, j) ==
    IF j > Len(lines) \/ IsTagLine(j) THEN text
    ELSE Wrapped(IF Strip(lines[j]) # ""
                 THEN Strip(text \o " " \o Strip(lines[j])) ELSE text, j + 1)
ExpectedValue(j) == Wrapped(Strip(ValGroup(lines[j])), j + 1)

\* the lines of block i that carry tag t
Occurrences(i, t) == {j \in FieldsOf(i) : TagGroup(lines[j]) = t}

\* C1: the records are, in source order, one per ER line reached with a
\* non-empty buffer, each holding exactly the tags of its own block; an ER
\* reached with an empty buffer adds none, and the tag lines after the last
\* ER are in no record.
C1_OneRecordPerTerminatedBlock ==
    /\ Len(records) = Cardinality(Closing)
    /\ \A k \in 1..Len(records) :
          DOMAIN records[k] = {TagGroup(lines[j]) : j \in FieldsOf(Kth(Closing, k))}

\* a record returned, an ER met with an empty buffer, and an unterminated
\* block at the end of the file
C1_Witness ==
    /\ pc = "parsed"
    /\ Len(records) = 1
    /\ \E i \in 1..Len(lines) : IsER(i) /\ FieldsOf(i) = {}
    /\ \E i \in 1..Len(lines) : IsField(i) /\ \A e \in i..Len(lines) : ~IsER(e)

\* C9: in every record, a tag that occurred k > 1 times holds a list of its
\* k values in source order and a tag that occurred once holds a scalar;
\* each value is its tag line's value with its own continuation lines.
C9_RepeatedTagsAreLists ==
    \A k \in 1..Len(records) :
        LET i == Kth(Closing, k) IN
        \A t \in DOMAIN records[k] :
            LET occ == Occurrences(i, t)
                val == records[k][t]
            IN /\ val.list = (Cardinality(occ) > 1)
               /\ Len(val.v) = Cardinality(occ)
               /\ \A m \in 1..Len(val.v) : val.v[m] = ExpectedValue(Kth(occ, m))

\* a returned record with a two-element list, a continuation line between
\* the two occurrences, and a scalar
C9_Witness ==
    /\ pc = "parsed"
    /\ \E k \in 1..Len(records) :
          /\ "AU" \in DOMAIN records[k] /\ "TI" \in DOMAIN records[k]
          /\ records[k]["AU"] = [list |-> TRUE, v |-> <<"B x", "C">>]
          /\ records[k]["TI"] = Scalar("A")

(***************************************************************************)
(* Rows and frames.  A row maps column names to strings; a DataFrame is    *)
(* [cols, rows]: its column names and its rows in index order.             *)
(***************************************************************************)
OUT_COLS == <<"Title", "Year", "Index", "DOI", "Author Surname", "Author Name">>
OutCols == {OUT_COLS[i] : i \in 1..Len(OUT_COLS)}
ResolvedCols == OutCols \cup {"_source_file"}
RowCols == ResolvedCols \cup {"_group"}

MkRow(title, year, index, doi, surname, name, file, group) ==
    [c \in RowCols |->
        CASE c = "Title" -> title
          [] c = "Year" -> year
          [] c = "Index" -> index
          [] c = "DOI" -> doi
          [] c = "Author Surname" -> surname
          [] c = "Author Name" -> name
          [] c = "_source_file" -> file
          [] c = "_group" -> group]

\* DataFrame.empty: no rows or no columns
IsEmpty(d) == d.rows = <<>> \/ d.cols = {}

\* the values of a row on the columns of subset
KeyOf(row, subset) == [c \in subset |-> row[c]]

\* a drop_duplicates that, having dropped a row, passes over the next one
RECURSIVE DropSkipping(_, _, _)
DropSkipping(rows, subset, seen) ==
    IF rows = <<>> THEN <<>>
    ELSE LET k == KeyOf(Head(rows), subset) IN
         IF k \in seen
         THEN IF Len(rows) = 1 THEN <<>>
              ELSE <<rows[2]>> \o DropSkipping(Tail(Tail(rows)), subset,
                                   seen \cup {KeyOf(rows[2], subset)})
         ELSE <<Head(rows)>> \o DropSkipping(Tail(rows), subset, seen \cup {k})
DropDuplicatesSkipping(rows, subset) == DropSkipping(rows, subset, {})

\* drop_duplicates(subset=..., keep="first")
RECURSIVE DropSeen(_, _, _)
DropSeen(rows, subset, seen) ==
    IF rows = <<>> THEN <<>>
    ELSE LET k == KeyOf(Head(rows), subset) IN
         (IF k \in seen THEN <<>> ELSE <<Head(rows)>>)
         \o DropSeen(Tail(rows), subset, seen \cup {k})
DropDuplicates(rows, subset) == DropSeen(rows, subset, {})

doi_nonempty(row) == Strip(row["DOI"]) # ""
doi_empty(row) == ~doi_nonempty(row)

\* a deduplicate that puts the surviving rows back in their input order
DeduplicateInterleaved(d) ==
    IF IsEmpty(d) THEN d
    ELSE LET keep == DropDuplicates(SelectSeq(d.rows, doi_nonempty), {"DOI"})
                     \o DropDuplicates(SelectSeq(d.rows, doi_empty),
                                          {"Title", "Year", "Author Name"})
             Kept(row) == \E i \in 1..Len(keep) : keep[i] = row
         IN [cols |-> d.cols, rows |-> DropDuplicates(SelectSeq(d.rows, Kept), RowCols)]

\* a deduplicate that leaves the rows without a DOI as they are
DeduplicateDoiOnly(d) ==
    IF IsEmpty(d) THEN d
    ELSE [cols |-> d.cols,
          rows |-> DropDuplicates(SelectSeq(d.rows, doi_nonempty), {"DOI"})
                   \o SelectSeq(d.rows, doi_empty)]

\* deduplicate(df)
Deduplicate(d) ==
    IF IsEmpty(d) THEN d
    ELSE LET df_with_doi == DropDuplicates(SelectSeq(d.rows, doi_nonempty), {"DOI"})
             df_no_doi == DropDuplicates(SelectSeq(d.rows, doi_empty),
                                            {"Title", "Year", "Author Name"})
         IN [cols |-> d.cols, rows |-> df_with_doi \o df_no_doi]

MaxRows == 4
DedupRowPool ==
    {MkRow(t, "2020", "P", d, "X", "X", "f.ris", "g") :
        t \in {"T", "U"}, d \in {"10.1/A", "10.1/B", "", " "}}
    \cup {MkRow("T", "2021", "P", "", "X", "X", "f.ris", "g"),
          MkRow("T", "2020", "P", "", "Y", "Y", "f.ris", "g")}

DedupInit ==
    /\ pc = "dedup"
    /\ ParseIdle /\ YearIdle /\ RowIdle /\ FolderIdle
    /\ df \in {[cols |-> RowCols, rows |-> r] :
                 r \in UNION {[1..n -> DedupRowPool] : n \in 0..MaxRows}}
    /\ once = NoFrame /\ twice = NoFrame

DedupOnce ==
    /\ pc = "dedup"
    /\ once' = Deduplicate(df)
    /\ pc' = "deduped"
    /\ UNCHANGED <<df, twice, NotDedup>>

DedupAgain ==
    /\ pc = "deduped"
    /\ twice' = Deduplicate(once)
    /\ pc' = "deduped twice"
    /\ UNCHANGED <<df, once, NotDedup>>

DedupNext == DedupOnce \/ DedupAgain

DedupSpec == DedupInit /\ [][DedupNext]_vars

(***************************************************************************)
(* The deduplicator's claims, stated over the positions of the input rows. *)
(***************************************************************************)
Triple(row) == <<row["Title"], row["Year"], row["Author Name"]>>

\* the input rows that hold a DOI and are the first to hold it
FirstOfDoi == {i \in 1..Len(df.rows) :
                 /\ Strip(df.rows[i]["DOI"]) # ""
                 /\ \A j \in 1..(i - 1) : df.rows[j]["DOI"] # df.rows[i]["DOI"]}

\* the input rows without a DOI that are the first such with their triple
FirstOfTriple == {i \in 1..Len(df.rows) :
                    /\ Strip(df.rows[i]["DOI"]) = ""
                    /\ \A j \in 1..(i - 1) :
                         Strip(df.rows[j]["DOI"]) = ""
                            => Triple(df.rows[j]) # Triple(df.rows[i])}

\* C2: deduplicate returns the first row of each DOI in input order, then
\* the first DOI-less row of each (Title, Year, Author Name) in input order.
C2_DoiRowsThenTripleRows ==
    pc = "deduped" =>
        LET n == Cardinality(FirstOfDoi) IN
        /\ Len(once.rows) = n + Cardinality(FirstOfTriple)
        /\ \A k \in 1..Len(once.rows) :
             once.rows[k] = IF k <= n THEN df.rows[Kth(FirstOfDoi, k)]
                            ELSE df.rows[Kth(FirstOfTriple, k - n)]

\* a duplicate dropped on each side, and a DOI-less row that came first in
\* the input and follows the DOI row in the output
C2_Witness ==
    /\ pc = "deduped"
    /\ Len(df.rows) = 4 /\ Len(once.rows) = 2
    /\ Strip(df.rows[1]["DOI"]) = "" /\ Strip(df.rows[2]["DOI"]) # ""
    /\ once.rows = <<df.rows[2], df.rows[1]>>

\* C8: deduplicate(deduplicate(rows)) is deduplicate(rows)
C8_DeduplicateIdempotent == pc = "deduped twice" => twice = once

\* the first pass dropped rows and moved a row
C8_Witness ==
    /\ pc = "deduped twice"
    /\ Len(once.rows) = 2 /\ Len(df.rows) = 4
    /\ once.rows[1] = df.rows[3]
    /\ twice = once

(***************************************************************************)
(* parse_year_range                                                        *)
(***************************************************************************)
DigitValueOf == [c \in Digits |-> (CHOOSE i \in 1..10 : Ch(DigitSeq, i) = c) - 1]
DigitValue(c) == DigitValueOf[c]

\* int() of a string of digits
RECURSIVE ToInt(_)
ToInt(t) ==
    IF t = "" THEN 0
    ELSE 10 * ToInt(SubSeq(t, 1, Len(t) - 1)) + DigitValue(Ch(t, Len(t)))

\* \d{4} at position i
FourDigitsAt(t, i) ==
    /\ i + 3 <= Len(t)
    /\ \A k \in i..(i + 3) : Ch(t, k) \in Digits

\* an int | None is <<n>> or NoYear
NoYear == <<>>

\* the result of parse_year_range
Returned(lo, hi) == [kind |-> "return", min_year |-> lo, max_year |-> hi]
ValueError == [kind |-> "ValueError"]

\* parse_year_range without the swap of descending bounds
ParseYearRangeNoSwap(text) ==
    LET t == Strip(text)
        a == SkipSpace(t, 1)
        dash == SkipSpace(t, a + 4)
        b == SkipSpace(t, dash + 1)
    IN IF t = "" THEN Returned(NoYear, NoYear)
       ELSE IF /\ FourDigitsAt(t, a)
               /\ dash <= Len(t) /\ Ch(t, dash) = "-"
               /\ FourDigitsAt(t, b)
               /\ SkipSpace(t, b + 4) = Len(t) + 1
       THEN Returned(<<ToInt(SubSeq(t, a, a + 3))>>, <<ToInt(SubSeq(t, b, b + 3))>>)
       ELSE ValueError

\* parse_year_range(s); the pattern is ^\s*(\d{4})\s*-\s*(\d{4})\s*$
ParseYearRange(text) ==
    LET t == Strip(text)
        a == SkipSpace(t, 1)
        dash == SkipSpace(t, a + 4)
        b == SkipSpace(t, dash + 1)
    IN IF t = "" THEN Returned(NoYear, NoYear)
       ELSE IF /\ FourDigitsAt(t, a)
               /\ dash <= Len(t) /\ Ch(t, dash) = "-"
               /\ FourDigitsAt(t, b)
               /\ SkipSpace(t, b + 4) = Len(t) + 1
       THEN LET y1 == ToInt(SubSeq(t, a, a + 3))
                y2 == ToInt(SubSeq(t, b, b + 3))
            IN IF y1 > y2 THEN Returned(<<y2>>, <<y1>>) ELSE Returned(<<y1>>, <<y2>>)
       ELSE ValueError

YearPool == {"2007", "2017", "1999", "200", "20071"}
YearTexts ==
    {lead \o y1 \o sep \o y2 \o trail :
        lead \in {"", " "}, y1 \in YearPool,
        sep \in {"-", " - ", "\t-", "- ", "", " ", "--"},
        y2 \in YearPool, trail \in {"", " ", "x"}}
    \cup {"", " ", " \t ", "abc", "2017", "2017-", "-2017", "2 017-2007"}

YearInit ==
    /\ pc = "year"
    /\ ParseIdle /\ DedupIdle /\ RowIdle /\ FolderIdle
    /\ year_text \in YearTexts
    /\ year_range = None

YearParse ==
    /\ pc = "year"
    /\ year_range' = ParseYearRange(year_text)
    /\ pc' = "year parsed"
    /\ UNCHANGED <<year_text, NotYear>>

YearNext == YearParse

YearSpec == YearInit /\ [][YearNext]_vars

(***************************************************************************)
(* The year-range claims, stated over the characters of the input.         *)
(***************************************************************************)
\* four digits, a hyphen, four digits
StrictForm(t) ==
    /\ Len(t) = 9
    /\ \A k \in {1, 2, 3, 4, 6, 7, 8, 9} : Ch(t, k) \in Digits
    /\ Ch(t, 5) = "-"

\* four digits, whitespace with exactly one hyphen in it, four digits
LooseForm(t) ==
    /\ Len(t) >= 9
    /\ \A k \in (1..4) \cup ((Len(t) - 3)..Len(t)) : Ch(t, k) \in Digits
    /\ \A k \in 5..(Len(t) - 4) : Ch(t, k) \in Space \cup {"-"}
    /\ Cardinality({k \in 5..(Len(t) - 4) : Ch(t, k) = "-"}) = 1

\* the two bounds as written, in ascending order
Bounds(t) ==
    LET y1 == ToInt(SubSeq(t, 1, 4))
        y2 == ToInt(SubSeq(t, Len(t) - 3, Len(t)))
    IN Returned(<<IF y1 <= y2 THEN y1 ELSE y2>>, <<IF y1 <= y2 THEN y2 ELSE y1>>)

\* C4 as claimed: only DDDD-DDDD with whitespace around the whole string is
\* accepted, only the empty string gives (None, None), and every other
\* string raises a format error.
C4_StrictFormOnly ==
    pc = "year parsed" =>
        IF StrictForm(Strip(year_text)) THEN year_range = Bounds(Strip(year_text))
        ELSE IF year_text = "" THEN year_range = Returned(NoYear, NoYear)
        ELSE year_range = ValueError

\* C4 as amended: the strings accepted are those that, trimmed, are four
\* digits, optional whitespace, a hyphen, optional whitespace, four digits,
\* returned as (min, max) with min <= max; the empty and the whitespace-only
\* strings give (None, None); every other string raises a format error.
C4_LooseFormOrBlank ==
    pc = "year parsed" =>
        /\ IF LooseForm(Strip(year_text)) THEN year_range = Bounds(Strip(year_text))
           ELSE IF Strip(year_text) = "" THEN year_range = Returned(NoYear, NoYear)
           ELSE year_range = ValueError
        /\ year_range.kind = "return" /\ year_range.min_year # NoYear
              => year_range.min_year[1] <= year_range.max_year[1]

\* descending bounds with whitespace around the hyphen, returned swapped
C4_Witness ==
    /\ pc = "year parsed"
    /\ year_text = " 2017 - 2007 "
    /\ year_range = Returned(<<2007>>, <<2017>>)

(***************************************************************************)
(* The field resolver: clean_doi, surname_from_author, year_from_any,      *)
(* get_first_from_tags, index_from_record and ris_records_to_rows.         *)
(***************************************************************************)
Has(r, tag) == tag \in DOMAIN r

\* bool(val) of a value a record holds (a list a record holds is never empty)
Truthy(val) == val.list \/ val.v[1] # ""

\* the first element that is not blank, stripped, or ""
RECURSIVE FirstNonEmpty(_)
FirstNonEmpty(v) ==
    IF v = <<>> THEN ""
    ELSE IF Strip(Head(v)) # "" THEN Strip(Head(v)) ELSE FirstNonEmpty(Tail(v))

\* get_first_from_tags(r, tags)
RECURSIVE GetFirstFromTags(_, _)
GetFirstFromTags(r, tags) ==
    IF tags = <<>> THEN ""
    ELSE IF /\ Has(r, Head(tags))
            /\ Truthy(r[Head(tags)])
            /\ FirstNonEmpty(r[Head(tags)].v) # ""
         THEN FirstNonEmpty(r[Head(tags)].v)
         ELSE GetFirstFromTags(r, Tail(tags))

\* clean_doi(x): the pattern is ^https?://doi\.org/ with IGNORECASE
DoiOrgPrefixLen(x) ==
    IF StartsWith(Lower(x), "https://doi.org/") THEN 16
    ELSE IF StartsWith(Lower(x), "http://doi.org/") THEN 15
    ELSE 0
CleanDoi(x) ==
    LET t == Strip(x) IN Strip(SubSeq(t, DoiOrgPrefixLen(t) + 1, Len(t)))

\* surname_from_author(author)
SurnameFromAuthor(author) ==
    LET a == Strip(author)
        blanks == {i \in 1..Len(a) : Ch(a, i) \in Space}
        lastBlank == IF blanks = {} THEN 0 ELSE Kth(blanks, Cardinality(blanks))
    IN IF a = "" THEN ""
       ELSE IF Contains(a, ",") THEN Strip(SubSeq(a, 1, FindAny(a, {","}, 1) - 1))
       ELSE SubSeq(a, lastBlank + 1, Len(a))

\* the pattern \b(19|20)\d{2}\b at position i of v
YearMatchAt(v, i) ==
    /\ i + 3 <= Len(v)
    /\ SubSeq(v, i, i + 1) \in {"19", "20"}
    /\ Ch(v, i + 2) \in Digits /\ Ch(v, i + 3) \in Digits
    /\ (i = 1 \/ Ch(v, i - 1) \notin WordChars)
    /\ (i + 3 = Len(v) \/ Ch(v, i + 4) \notin WordChars)

\* re.search of that pattern: the leftmost match, or ""
YearSearch(v) ==
    LET hits == {i \in 1..Len(v) : YearMatchAt(v, i)}
    IN IF hits = {} THEN "" ELSE SubSeq(v, Kth(hits, 1), Kth(hits, 1) + 3)

\* year_from_any(r)
RECURSIVE YearFrom(_, _)
YearFrom(r, keys) ==
    IF keys = <<>> THEN ""
    ELSE LET v == IF Has(r, Head(keys)) THEN Strip(r[Head(keys)].v[1]) ELSE ""
         IN IF v # "" /\ YearSearch(v) # "" THEN YearSearch(v)
            ELSE YearFrom(r, Tail(keys))
YearFromAny(r) == YearFrom(r, <<"PY", "Y1", "DA", "DP">>)

\* urlparse(ur).netloc: what follows "scheme://" up to the first of / ? #
SchemeChars == Upper \cup LowerLetters \cup Digits \cup {"+", "-", "."}
AfterScheme(u) ==
    LET c == FindAny(u, {":"}, 1)
    IN IF /\ c > 1 /\ c <= Len(u)
          /\ Ch(u, 1) \in Upper \cup LowerLetters
          /\ \A k \in 1..(c - 1) : Ch(u, k) \in SchemeChars
       THEN SubSeq(u, c + 1, Len(u)) ELSE u
Netloc(u) ==
    LET rest == AfterScheme(u)
    IN IF StartsWith(rest, "//")
       THEN SubSeq(rest, 3, FindAny(rest, {"/", "?", "#"}, 3) - 1) ELSE ""
\* urlparse raises ValueError on a netloc with one bracket and not the other
UrlparseRaises(u) == Contains(Netloc(u), "[") # Contains(Netloc(u), "]")

PROVIDER_MAP ==
    << <<"ieeexplore.ieee.org", "IEEE Xplore">>,
       <<"sciencedirect.com", "ScienceDirect">>,
       <<"webofscience.com", "Web of Science">>,
       <<"link.springer.com", "SpringerLink">>,
       <<"springer.com", "SpringerLink">>,
       <<"onlinelibrary.wiley.com", "Wiley Online Library">>,
       <<"wiley.com", "Wiley Online Library">>,
       <<"pubmed.ncbi.nlm.nih.gov", "PubMed">>,
       <<"dl.acm.org", "ACM Digital Library">>,
       <<"acm.org", "ACM Digital Library">>,
       <<"tandfonline.com", "Taylor & Francis">>,
       <<"nature.com", "Nature">> >>

\* the DOI prefixes of index_from_record, in the order of its tests
DOI_PREFIXES ==
    << <<"10.1109", "IEEE Xplore">>,
       <<"10.1016", "ScienceDirect">>,
       <<"10.1007", "SpringerLink">>,
       <<"10.1002", "Wiley Online Library">>,
       <<"10.1145", "ACM Digital Library">> >>

\* the label of the first key of PROVIDER_MAP, from i on, that host contains
RECURSIVE ProviderOf(_, _)
ProviderOf(host, i) ==
    IF i > Len(PROVIDER_MAP) THEN None
    ELSE IF Contains(host, PROVIDER_MAP[i][1]) THEN PROVIDER_MAP[i][2]
    ELSE ProviderOf(host, i + 1)

\* the label of the first prefix of DOI_PREFIXES, from i on, that doi starts with
RECURSIVE PrefixLabel(_, _)
PrefixLabel(doi, i) ==
    IF i > Len(DOI_PREFIXES) THEN None
    ELSE IF StartsWith(doi, DOI_PREFIXES[i][1]) THEN DOI_PREFIXES[i][2]
    ELSE PrefixLabel(doi, i + 1)

\* str(val): a string is itself, a list is the repr of its strings in brackets
RECURSIVE JoinRepr(_)
JoinRepr(v) ==
    IF v = <<>> THEN ""
    ELSE "'" \o Head(v) \o "'"
         \o (IF Len(v) > 1 THEN ", " ELSE "") \o JoinRepr(Tail(v))
PyStr(val) == IF val.list THEN "[" \o JoinRepr(val.v) \o "]" ELSE val.v[1]

\* fallback.replace("_", " ")
RECURSIVE ReplaceUnderscores(_)
ReplaceUnderscores(s) ==
    IF s = "" THEN ""
    ELSE (IF Ch(s, 1) = "_" THEN " " ELSE Ch(s, 1))
         \o ReplaceUnderscores(SubSeq(s, 2, Len(s)))

\* re.sub(r"\bexports\b", "", s, flags=re.IGNORECASE), from position i on
RECURSIVE RemoveExports(_, _)
RemoveExports(s, i) ==
    IF i > Len(s) THEN ""
    ELSE IF /\ i + 6 <= Len(s)
            /\ Lower(SubSeq(s, i, i + 6)) = "exports"
            /\ (i = 1 \/ Ch(s, i - 1) \notin WordChars)
            /\ (i + 6 = Len(s) \/ Ch(s, i + 7) \notin WordChars)
         THEN RemoveExports(s, i + 7)
         ELSE Ch(s, i) \o RemoveExports(s, i + 1)

\* str.title(), from position i on
RECURSIVE Title(_, _)
Title(s, i) ==
    IF i > Len(s) THEN ""
    ELSE (IF i > 1 /\ Ch(s, i - 1) \in Upper \cup LowerLetters
          THEN LowerCh(Ch(s, i)) ELSE UpperCh(Ch(s, i)))
         \o Title(s, i + 1)

\* step 3 of index_from_record
CleanFallback(fallback) ==
    LET fb == Strip(RemoveExports(Strip(ReplaceUnderscores(fallback)), 1))
    IN IF fb # "" THEN Title(fb, 1) ELSE "Unknown Source"

\* index_from_record(r, fallback)
IndexFromRecord(r, fallback) ==
    LET ur == IF Has(r, "UR") THEN Strip(r["UR"].v[1]) ELSE ""
        byUrl == IF ur # "" /\ ~UrlparseRaises(ur)
                 THEN ProviderOf(Lower(Netloc(ur)), 1) ELSE None
        raw == IF Has(r, "DO") /\ Truthy(r["DO"]) THEN r["DO"]
               ELSE IF Has(r, "DOI") /\ Truthy(r["DOI"]) THEN r["DOI"]
               ELSE Scalar("")
        doi == Lower(Strip(PyStr(raw)))
        byDoi == IF doi # "" THEN PrefixLabel(doi, 1) ELSE None
    IN IF byUrl # None THEN byUrl
       ELSE IF byDoi # None THEN byDoi
       ELSE CleanFallback(fallback)

\* the row ris_records_to_rows appends for r
RowOf(r, name, file) ==
    LET first_author == GetFirstFromTags(r, <<"AU", "A1", "AF", "A2", "A3", "A4", "ED">>)
    IN [c \in ResolvedCols |->
          CASE c = "Title" -> GetFirstFromTags(r, <<"T1", "TI", "CT", "BT">>)
            [] c = "Year" -> YearFromAny(r)
            [] c = "Index" -> IndexFromRecord(r, name)
            [] c = "DOI" -> CleanDoi(GetFirstFromTags(r, <<"DO", "DOI">>))
            [] c = "Author Surname" -> SurnameFromAuthor(first_author)
            [] c = "Author Name" -> first_author
            [] c = "_source_file" -> file]

\* ris_records_to_rows(records, source_name, source_file)
RisRecordsToRows(recs, name, file) ==
    [i \in 1..Len(recs) |-> RowOf(recs[i], name, file)]

\* records as the parser builds them: every value stripped, a list of two
\* or more; <<>> leaves the tag out
RecordOf(ur, do, py, au) ==
    LET given == [t \in {"UR", "DO", "PY", "AU", "TI"} |->
                    CASE t = "UR" -> ur [] t = "DO" -> do [] t = "PY" -> py
                      [] t = "AU" -> au [] t = "TI" -> <<Scalar("On Cats")>>]
    IN [t \in {x \in DOMAIN given : given[x] # <<>>} |-> given[t][1]]

ListOf(v) == [list |-> TRUE, v |-> v]
RecordPool ==
    {RecordOf(ur, do, py, au) :
        ur \in {<<>>, <<Scalar("")>>,
                <<Scalar("https://dl.acm.org/doi/10.1145/1")>>,
                <<Scalar("https://doi.org/10.1109/x")>>,
                <<ListOf(<<"http://[bad/x", "https://www.nature.com/a">>)>>},
        do \in {<<>>, <<Scalar("")>>,
                <<Scalar("10.1109/ABC")>>,
                <<Scalar("https://doi.org/10.1109/ABC")>>,
                <<Scalar("HTTP://DOI.ORG/10.1016/j.x")>>,
                <<Scalar("10.9999/z")>>,
                <<ListOf(<<"10.1145/A", "10.1145/B">>)>>,
                <<ListOf(<<"", "10.1007/s1">>)>>},
        py \in {<<>>, <<Scalar("2015 Mar")>>},
        au \in {<<Scalar("Smith, John")>>, <<ListOf(<<"John Smith", "Doe, J">>)>>}}

RowInit ==
    /\ pc = "rows"
    /\ ParseIdle /\ DedupIdle /\ YearIdle /\ FolderIdle
    /\ ris_record \in RecordPool
    /\ source_name \in {"ieee_exports", "exports"}
    /\ resolved = <<>>

ToRows ==
    /\ pc = "rows"
    /\ resolved' = RisRecordsToRows(<<ris_record>>, source_name, "1.(q)_a.ris")
    /\ pc' = "resolved"
    /\ UNCHANGED <<ris_record, source_name, NotRow>>

RowNext == ToRows

RowSpec == RowInit /\ [][RowNext]_vars

(***************************************************************************)
(* The field resolver's claims.                                            *)
(***************************************************************************)
\* C5: a record without a UR value whose row DOI starts with a prefix of
\* the DOI-prefix table gets that prefix's label as its Index.
C5_DoiPrefixGivesLabel ==
    pc = "resolved" =>
        \A i \in 1..Len(DOI_PREFIXES) :
            /\ ~Has(ris_record, "UR")
            /\ StartsWith(Lower(resolved[1]["DOI"]), DOI_PREFIXES[i][1])
            => resolved[1]["Index"] = DOI_PREFIXES[i][2]

(***************************************************************************)
(* extract_group_header and the order of the groups                        *)
(***************************************************************************)
\* the characters of the file names and headers, in code point order
CodeSeq == " ()-.0123456789:ABCDEFGHIJKLMNOPQRSTUVWXYZ_abcdefghijklmnopqrstuvwxyz"
CodeOf == [c \in {Ch(CodeSeq, i) : i \in 1..Len(CodeSeq)} |->
             CHOOSE i \in 1..Len(CodeSeq) : Ch(CodeSeq, i) = c]
Code(c) == CodeOf[c]

\* a < b on Python strings
RECURSIVE StrLess(_, _)
StrLess(a, b) ==
    IF b = "" THEN FALSE
    ELSE IF a = "" THEN TRUE
    ELSE IF Ch(a, 1) = Ch(b, 1)
         THEN StrLess(SubSeq(a, 2, Len(a)), SubSeq(b, 2, Len(b)))
         ELSE Code(Ch(a, 1)) < Code(Ch(b, 1))

\* str() of a natural number
RECURSIVE IntToStr(_)
IntToStr(n) ==
    IF n < 10 THEN Ch(DigitSeq, n + 1)
    ELSE IntToStr(n \div 10) \o Ch(DigitSeq, (n % 10) + 1)

\* an int | None for a group number is <<n>> or NoNum
NoNum == <<>>

\* FNAME_RE, IGNORECASE: digits, ".(", a query, ")_", something, ".ris".
\* NumLen is the length of the leading digits; the query is greedy, so it
\* ends at the last ")_" that leaves something before ".ris".
RECURSIVE SkipDigits(_, _)
SkipDigits(name, i) ==
    IF i <= Len(name) /\ Ch(name, i) \in Digits THEN SkipDigits(name, i + 1) ELSE i
NumLen(name) == SkipDigits(name, 1) - 1
QueryEnds(name) ==
    {j \in (NumLen(name) + 4)..(Len(name) - 6) : SubSeq(name, j, j + 1) = ")_"}
FnameMatch(name) ==
    /\ NumLen(name) >= 1
    /\ Len(name) >= NumLen(name) + 2
    /\ SubSeq(name, NumLen(name) + 1, NumLen(name) + 2) = ".("
    /\ Lower(SubSeq(name, Len(name) - 3, Len(name))) = ".ris"
    /\ QueryEnds(name) # {}
QueryGroup(name) ==
    SubSeq(name, NumLen(name) + 3,
           Kth(QueryEnds(name), Cardinality(QueryEnds(name))) - 1)

\* extract_group_header(path)
ExtractGroupHeader(name) ==
    IF FnameMatch(name)
    THEN LET num == ToInt(SubSeq(name, 1, NumLen(name)))
         IN [num |-> <<num>>,
             header |-> IntToStr(num) \o ".(" \o QueryGroup(name) \o ")"]
    ELSE [num |-> NoNum, header |-> "FILE: " \o name]

\* the sort key of line 345 and the order of Python tuples on it
NoNumKey == 1000000000
SortKey(x) ==
    <<IF x.num = NoNum THEN 1 ELSE 0,
      IF x.num = NoNum THEN NoNumKey ELSE x.num[1],
      x.header>>
KeyLess(x, y) ==
    LET a == SortKey(x)
        b == SortKey(y)
    IN \/ a[1] < b[1]
       \/ a[1] = b[1] /\ a[2] < b[2]
       \/ a[1] = b[1] /\ a[2] = b[2] /\ StrLess(a[3], b[3])

\* a sort of the groups on their headers alone
SortKeysByHeader(keys) ==
    LET n == Len(keys)
        Less(x, y) == StrLess(x.header, y.header)
        rank(i) == 1 + Cardinality({j \in 1..n :
                        \/ Less(keys[j], keys[i])
                        \/ ~Less(keys[i], keys[j]) /\ j < i})
    IN [k \in 1..n |-> keys[CHOOSE i \in 1..n : rank(i) = k]]

\* order_keys.sort(key=...): list.sort is stable, so an element comes after
\* the smaller ones and after the earlier ones that compare equal to it
SortKeys(keys) ==
    LET n == Len(keys)
        rank(i) == 1 + Cardinality({j \in 1..n :
                        \/ KeyLess(keys[j], keys[i])
                        \/ ~KeyLess(keys[i], keys[j]) /\ j < i})
    IN [k \in 1..n |-> keys[CHOOSE i \in 1..n : rank(i) = k]]

(***************************************************************************)
(* parse_ris_file as a function of the lines, for the folder run           *)
(***************************************************************************)
RECURSIVE ParseFrom(_, _, _, _, _)
ParseFrom(ls, i, recs, cur, last) ==
    IF i > Len(ls) THEN recs
    ELSE IF ~TagLineMatch(ls[i])
         THEN ParseFrom(ls, i + 1, recs,
                        IF last # None /\ Strip(ls[i]) # ""
                        THEN Continue(cur, last, ls[i]) ELSE cur,
                        last)
    ELSE IF Strip(TagGroup(ls[i])) = "ER"
         THEN ParseFrom(ls, i + 1, FinishOne(recs, cur), EmptyRecord, None)
    ELSE ParseFrom(ls, i + 1, recs,
                   AddValue(cur, Strip(TagGroup(ls[i])), Strip(ValGroup(ls[i]))),
                   Strip(TagGroup(ls[i])))
ParseRisFile(ls) == ParseFrom(ls, 1, <<>>, EmptyRecord, None)

(***************************************************************************)
(* apply_filters                                                           *)
(***************************************************************************)
\* year_ok(y)
YearOk(y, lo, hi) ==
    LET t == Strip(y) IN
    /\ t # "" /\ \A k \in 1..Len(t) : Ch(t, k) \in Digits
    /\ (lo # NoYear => ToInt(t) >= lo[1])
    /\ (hi # NoYear => ToInt(t) <= hi[1])

\* matches_only_filter(row, terms)
MatchesOnlyFilter(row, terms) ==
    LET hay == Lower(row["Title"] \o " " \o row["DOI"] \o " "
                     \o row["Author Name"] \o " " \o row["Index"])
    IN \A k \in 1..Len(terms) : Contains(hay, Lower(terms[k]))

\* out["Year"] raises KeyError when the frame has no Year column
FiltersRaise(d, lo, hi) == (lo # NoYear \/ hi # NoYear) /\ "Year" \notin d.cols

\* the year filter of apply_filters
YearFiltered(d, lo, hi) ==
    IF lo # NoYear \/ hi # NoYear
    THEN LET Ok(row) == YearOk(row["Year"], lo, hi)
         IN [cols |-> d.cols, rows |-> SelectSeq(d.rows, Ok)]
    ELSE d

\* the ONLY filter of apply_filters; on a frame without rows DataFrame.apply
\* returns an empty Series that is no boolean mask, and out[...] then selects
\* no column at all
OnlyFiltered(d, terms) ==
    IF terms = <<>> THEN d
    ELSE IF d.rows = <<>> THEN [cols |-> {}, rows |-> <<>>]
    ELSE LET Ok(row) == MatchesOnlyFilter(row, terms)
         IN [cols |-> d.cols, rows |-> SelectSeq(d.rows, Ok)]

\* apply_filters(df, min_year, max_year, only_terms), when it does not raise
ApplyFilters(d, lo, hi, terms) == OnlyFiltered(YearFiltered(d, lo, hi), terms)

(***************************************************************************)
(* build_grouped_excel_for_folder                                          *)
(***************************************************************************)
FolderName == "my_exports"

\* pd.DataFrame(rows) followed by df["_group"] = header
FrameOf(name, header) ==
    LET rows == RisRecordsToRows(ParseRisFile(folder[name]), FolderName, name)
    IN [cols |-> (IF rows = <<>> THEN {} ELSE ResolvedCols) \cup {"_group"},
        rows |-> [i \in 1..Len(rows) |->
                    [c \in RowCols |-> IF c = "_group" THEN header ELSE rows[i][c]]]]

\* pd.concat(frames, ignore_index=True)
RECURSIVE Concat(_)
Concat(frames) ==
    IF frames = <<>> THEN NoFrame
    ELSE LET rest == Concat(Tail(frames))
         IN [cols |-> Head(frames).cols \cup rest.cols,
             rows |-> Head(frames).rows \o rest.rows]

\* df_group before the filters: the frames of the group's files, concatenated
GroupFrame(header) ==
    Concat([i \in 1..Len(groups[header].files) |->
               FrameOf(groups[header].files[i], header)])

\* df_group after the optional deduplication of lines 380-383
Deduped(kept) == IF do_dedup /\ ~IsEmpty(kept) THEN Deduplicate(kept) ELSE kept

HeaderRow(header) == [c \in OutCols |-> IF c = "Title" THEN header ELSE ""]
BlankRow == [c \in OutCols |-> ""]
\* {c: r.get(c, "") for c in OUT_COLS}
OutRow(row) == [c \in OutCols |-> IF c \in DOMAIN row THEN row[c] ELSE ""]

\* the rows a group adds to output_rows, without the blank row after them
GroupedRowsNoSeparator(header, d) ==
    <<HeaderRow(header)>> \o [i \in 1..Len(d.rows) |-> OutRow(d.rows[i])]

\* the rows a group adds to output_rows
GroupedRows(header, d) ==
    <<HeaderRow(header)>> \o [i \in 1..Len(d.rows) |-> OutRow(d.rows[i])]
    \o <<BlankRow>>

MaxFiles == 3
NamePool == {"2.(b)_x.ris", "2.(a)_0-100.ris", "02.(a)_all.RIS",
             "10.(a)_x.ris", "z.ris", "B.ris"}
ContentPool ==
    { <<>>,
      <<"TI  - Dogs", "DO  - 10.1/d">>,
      <<"TI  - On Cats", "PY  - 2015", "DO  - 10.1145/1", "ER  - ",
        "TI  - Old Cats", "PY  - 1999", "AU  - Doe, J", "ER  - ">> }

\* sorted(glob("*.ris") + glob("*.RIS")) on a file system that tells case:
\* the names are distinct, so each comes after exactly the smaller ones
GlobRis == {n \in DOMAIN folder : SubSeq(n, Len(n) - 3, Len(n)) \in {".ris", ".RIS"}}
SortedFiles ==
    LET names == GlobRis
    IN [k \in 1..Cardinality(names) |->
          CHOOSE n \in names :
             Cardinality({m \in names : StrLess(m, n)}) = k - 1]

FolderInit ==
    /\ pc = "folder"
    /\ ParseIdle /\ DedupIdle /\ YearIdle /\ RowIdle
    /\ folder \in UNION {[names -> ContentPool] :
                           names \in {n \in SUBSET NamePool : Cardinality(n) <= MaxFiles}}
    /\ files = <<>>
    /\ \E bounds \in {<<NoYear, NoYear>>, <<<<2010>>, <<2020>>>>} :
          min_year = bounds[1] /\ max_year = bounds[2]
    /\ only_terms \in {<<>>, <<"Cats", "acm">>}
    /\ do_dedup \in BOOLEAN
    /\ groups = <<>> /\ order_keys = <<>>
    /\ total_parsed = 0 /\ total_kept_after_filters = 0 /\ total_dedup_removed = 0
    /\ output_rows = <<>> /\ raw_rows = <<>> /\ df_out = NoFrame /\ df_raw = NoFrame
    /\ error = None

\* lines 323-325 with no file: return None
NoFiles ==
    /\ pc = "folder"
    /\ SortedFiles = <<>>
    /\ pc' = "no output"
    /\ UNCHANGED <<folderVars, NotFolder>>

\* line 323 with files
CollectFiles ==
    /\ pc = "folder"
    /\ SortedFiles # <<>>
    /\ files' = SortedFiles
    /\ pc' = "grouping"
    /\ UNCHANGED <<folder, filterVars, groupVars, statVars, viewVars, error, NotFolder>>

Grouped == LET Count(h) == Len(groups[h].files)
               RECURSIVE Sum(_)
               Sum(hs) == IF hs = {} THEN 0
                          ELSE LET h == CHOOSE x \in hs : TRUE
                               IN Count(h) + Sum(hs \ {h})
           IN Sum(DOMAIN groups)

\* one pass of the loop of lines 337-342
GroupFile ==
    /\ pc = "grouping"
    /\ Grouped < Len(files)
    /\ LET f == files[Grouped + 1]
           g == ExtractGroupHeader(f)
       IN IF g.header \notin DOMAIN groups
          THEN /\ groups' = [h \in DOMAIN groups \cup {g.header} |->
                               IF h = g.header THEN [num |-> g.num, files |-> <<f>>]
                               ELSE groups[h]]
               /\ order_keys' = Append(order_keys, g)
          ELSE /\ groups' = [groups EXCEPT ![g.header].files = Append(@, f)]
               /\ order_keys' = order_keys
    /\ UNCHANGED <<pc, folder, files, filterVars, statVars, viewVars, error, NotFolder>>

\* lines 345-354
SortGroups ==
    /\ pc = "grouping"
    /\ Grouped = Len(files)
    /\ order_keys' = SortKeys(order_keys)
    /\ pc' = "groups"
    /\ UNCHANGED <<folder, files, filterVars, groups, statVars, viewVars, error, NotFolder>>

\* one pass of the loop of lines 356-393
ProcessGroup ==
    /\ pc = "groups"
    /\ Len(raw_rows) < Len(order_keys)
    /\ LET header == order_keys[Len(raw_rows) + 1].header
           parsed == GroupFrame(header)
           kept == ApplyFilters(parsed, min_year, max_year, only_terms)
           final == Deduped(kept)
       IN /\ ~FiltersRaise(parsed, min_year, max_year)
          /\ total_parsed' = total_parsed + Len(parsed.rows)
          /\ total_kept_after_filters' = total_kept_after_filters + Len(kept.rows)
          /\ total_dedup_removed' =
                total_dedup_removed + (Len(kept.rows) - Len(final.rows))
          /\ output_rows' = output_rows \o GroupedRows(header, final)
          /\ raw_rows' = Append(raw_rows, final)
    /\ UNCHANGED <<pc, folder, files, filterVars, groupVars, df_out, df_raw, error, NotFolder>>

\* a pass of that loop in which apply_filters raises: lines 358-376
ProcessGroupRaises ==
    /\ pc = "groups"
    /\ Len(raw_rows) < Len(order_keys)
    /\ LET header == order_keys[Len(raw_rows) + 1].header
           parsed == GroupFrame(header)
       IN /\ FiltersRaise(parsed, min_year, max_year)
          /\ total_parsed' = total_parsed + Len(parsed.rows)
          /\ output_rows' = Append(output_rows, HeaderRow(header))
    /\ error' = "KeyError: 'Year'"
    /\ pc' = "raised"
    /\ UNCHANGED <<folder, files, filterVars, groupVars, total_kept_after_filters,
                   total_dedup_removed, raw_rows, df_out, df_raw, NotFolder>>

\* lines 396-414
BuildFrames ==
    /\ pc = "groups"
    /\ Len(raw_rows) = Len(order_keys)
    /\ df_out' = [cols |-> OutCols, rows |-> output_rows]
    /\ df_raw' = Concat(raw_rows)
    /\ pc' = "done"
    /\ UNCHANGED <<folder, files, filterVars, groupVars, statVars, output_rows,
                   raw_rows, error, NotFolder>>

FolderNext ==
    \/ NoFiles \/ CollectFiles \/ GroupFile \/ SortGroups
    \/ ProcessGroup \/ ProcessGroupRaises \/ BuildFrames

FolderSpec == FolderInit /\ [][FolderNext]_vars

(***************************************************************************)
(* The folder run's claims.                                                *)
(***************************************************************************)
\* two rows that deduplication takes for the same article
SameArticle(a, b) ==
    \/ a["DOI"] # "" /\ a["DOI"] = b["DOI"]
    \/ a["DOI"] = "" /\ b["DOI"] = "" /\ Triple(a) = Triple(b)

\* C3 as claimed: with deduplication on, no two rows of the raw view are
\* the same article, whatever groups they come from.
C3_NoDuplicatesInRawView ==
    pc = "done" /\ do_dedup =>
        \A i, j \in 1..Len(df_raw.rows) :
            i < j => ~SameArticle(df_raw.rows[i], df_raw.rows[j])

\* C3 as amended: with deduplication on, no two rows of the raw view that
\* belong to the same group are the same article.
C3_NoDuplicatesWithinGroup ==
    pc = "done" /\ do_dedup =>
        \A i, j \in 1..Len(df_raw.rows) :
            i < j /\ df_raw.rows[i]["_group"] = df_raw.rows[j]["_group"]
               => ~SameArticle(df_raw.rows[i], df_raw.rows[j])

\* deduplication dropped rows of a group, and two groups still share an article
C3_Witness ==
    /\ pc = "done" /\ do_dedup
    /\ total_dedup_removed > 0
    /\ \E i, j \in 1..Len(df_raw.rows) :
          /\ i < j
          /\ df_raw.rows[i]["_group"] # df_raw.rows[j]["_group"]
          /\ SameArticle(df_raw.rows[i], df_raw.rows[j])

\* the number of records of the file named name
RecordCount(name) == Len(ParseRisFile(folder[name]))
RECURSIVE TotalRecords(_)
TotalRecords(names) ==
    IF names = {} THEN 0
    ELSE LET n == CHOOSE x \in names : TRUE
         IN RecordCount(n) + TotalRecords(names \ {n})

\* the place of group g's header row in the grouped view
RECURSIVE Offset(_)
Offset(g) == IF g = 1 THEN 1 ELSE Offset(g - 1) + Len(raw_rows[g - 1].rows) + 2

\* C6: a run over a folder with files never ends in an error; the counters
\* count the records of the files, and a group whose files hold no record
\* adds its header row and its blank row and nothing else.
C6_RunCompletes ==
    /\ pc # "raised"
    /\ pc = "done" =>
          /\ total_parsed = TotalRecords(DOMAIN folder)
          /\ total_kept_after_filters = Len(df_raw.rows) + total_dedup_removed
          /\ \A g \in 1..Len(order_keys) :
                (\A i \in 1..Len(groups[order_keys[g].header].files) :
                    RecordCount(groups[order_keys[g].header].files[i]) = 0)
                => /\ raw_rows[g].rows = <<>>
                   /\ df_out.rows[Offset(g)] = HeaderRow(order_keys[g].header)
                   /\ df_out.rows[Offset(g) + 1] = BlankRow

\* the grouping convention, stated on the positions of a file name: digits
\* up to a, ".(", a query up to b, ")_", something, ".ris" in any case
Conventional(name) ==
    \E a, b \in 1..Len(name) :
        /\ \A k \in 1..a : Ch(name, k) \in Digits
        /\ a + 2 <= Len(name) /\ SubSeq(name, a + 1, a + 2) = ".("
        /\ b >= a + 4 /\ b + 2 <= Len(name) - 4 /\ SubSeq(name, b, b + 1) = ")_"
        /\ Lower(SubSeq(name, Len(name) - 3, Len(name))) = ".ris"

\* x is processed before y
Before(x, y) ==
    \/ x.num # NoNum /\ y.num = NoNum
    \/ /\ x.num # NoNum /\ y.num # NoNum
       /\ \/ x.num[1] < y.num[1]
          \/ x.num[1] = y.num[1] /\ StrLess(x.header, y.header)
    \/ x.num = NoNum /\ y.num = NoNum /\ StrLess(x.header, y.header)

\* C7: every header of the folder's files is one group, holding all the
\* files with that header; the groups of conventional names come first, by
\* integer and then by header, the groups of the other names follow, by
\* header; and the groups are processed once each in that order.
C7_GroupOrder ==
    pc \in {"groups", "raised", "done"} =>
        /\ Len(order_keys) =
              Cardinality({ExtractGroupHeader(files[i]).header : i \in 1..Len(files)})
        /\ \A g \in 1..Len(order_keys) :
              LET key == order_keys[g]
                  Mine(f) == ExtractGroupHeader(f).header = key.header
              IN /\ groups[key.header].files = SelectSeq(files, Mine)
                 /\ groups[key.header].files # <<>>
                 /\ (key.num # NoNum) = Conventional(groups[key.header].files[1])
                 /\ key.num # NoNum =>
                      key.num[1] = ToInt(SubSeq(groups[key.header].files[1], 1,
                                      NumLen(groups[key.header].files[1])))
        /\ \A g, h \in 1..Len(order_keys) :
              g < h => Before(order_keys[g], order_keys[h])
        /\ \A g \in 1..Len(raw_rows) :
              \A i \in 1..Len(raw_rows[g].rows) :
                  raw_rows[g].rows[i]["_group"] = order_keys[g].header
        /\ pc = "done" => Len(raw_rows) = Len(order_keys)

\* two files merged into group 2, processed before group 10
C7_Witness ==
    /\ pc = "done"
    /\ Len(order_keys) = 2
    /\ order_keys[1].header = "2.(a)" /\ order_keys[2].header = "10.(a)"
    /\ groups["2.(a)"].files = <<"02.(a)_all.RIS", "2.(a)_0-100.ris">>

\* a group ordered by header among the files' own names, before all of them
C7_WitnessFileGroups ==
    /\ pc = "done"
    /\ Len(order_keys) = 3
    /\ order_keys[1].header = "2.(b)"
    /\ order_keys[2].header = "FILE: B.ris" /\ order_keys[3].header = "FILE: z.ris"

\* C10: the grouped view is, group after group in processing order, the
\* header row, the group's rows of the raw view, and an empty row: it has
\* the raw view's rows in the raw view's order and 2 * G rows more.
C10_GroupedViewShape ==
    pc = "done" =>
        LET G == Len(order_keys) IN
        /\ Len(raw_rows) = G
        /\ Len(df_out.rows) = Len(df_raw.rows) + 2 * G
        /\ \A g \in 1..G :
              LET o == Offset(g)
                  n == Len(raw_rows[g].rows)
              IN /\ df_out.rows[o] = HeaderRow(order_keys[g].header)
                 /\ df_out.rows[o + n + 1] = BlankRow
                 /\ \A m \in 1..n :
                       df_out.rows[o + m] = OutRow(df_raw.rows[o - 1 - 2 * (g - 1) + m])

\* two groups with rows in the raw view
C10_Witness ==
    /\ pc = "done"
    /\ Len(order_keys) = 2
    /\ Len(raw_rows[1].rows) >= 1 /\ Len(raw_rows[2].rows) >= 2
    /\ Len(df_out.rows) = Len(df_raw.rows) + 4

====
